---- MODULE Spec2Model ----
(***************************************************************************)
(* db-canvas: the schema graph engine.                                     *)
(*                                                                         *)
(* The Project snapshot (tables, connections) is React state owned by the  *)
(* project provider; useTables and useConnections are the mutation service *)
(* (each keeps a hook-local cache of the list it edits); DBCanvas is the   *)
(* canvas synchronisation layer: it rebuilds nodes and edges from every    *)
(* new snapshot and sweeps connections that no longer resolve.             *)
(*                                                                         *)
(* Strings are sequences of one-character strings, so that the identifier  *)
(* regex, trim(), the " (Copy)" suffix and the "-left" handle suffix are   *)
(* computed as the code computes them.                                     *)
(***************************************************************************)
EXTENDS Integers, Sequences, FiniteSets, TLC

VARIABLES
    project,      \* currentProject: [open, tables, connections] (open = FALSE is null)
    tables,       \* useTables' local state `tables`
    connections,  \* useConnections' local state `connections`
    nodes,        \* DBCanvas' React Flow nodes
    edges,        \* DBCanvas' React Flow edges
    phase,        \* "Idle" or "Reconciling" (a snapshot change awaits its rebuild)
    uuid,         \* the number of uuidv4() values handed out so far
    edits,        \* the number of accepted updateTable / updateConnection calls so far
    last,         \* the last mutation-service call: what was asked, what it returned
    copiedTableData, \* useClipboardHandling's state: the table held (NoTable is null)
    warning,      \* the count the latest rebuild's toast.warning carried (0: it showed none)
    issued        \* the mutation-service calls the latest drag-stop, edge change, connect
                  \* gesture or rebuild issued, in order

vars == <<project, tables, connections, nodes, edges, phase, uuid, edits, last,
          copiedTableData, warning, issued>>

----------------------------------------------------------------------------
(* Bounds of the model.                                                    *)

\* A behaviour hands out ids (uuidv4) and accepts edits (updateTable,
\* updateConnection) at most this many times in all.
MaxWork == 6

----------------------------------------------------------------------------
(* Strings.                                                                *)

LowerCase == {"a", "c", "d", "i", "k", "o", "u", "z", "l", "e", "f", "t", "p", "y"}
UpperCase == {"C"}
Digits    == {"0", "1", "2", "3", "4", "5", "6", "7", "8", "9"}
WhiteSpace == {" "}

\* /^[a-zA-Z_][a-zA-Z0-9_]*$/.test(s)
IsIdentifier(s) ==
    /\ Len(s) > 0
    /\ s[1] \in LowerCase \cup UpperCase \cup {"_"}
    /\ \A i \in 2..Len(s) : s[i] \in LowerCase \cup UpperCase \cup Digits \cup {"_"}

\* !s.trim(): nothing is left once the white space at both ends is removed
IsBlank(s) == \A i \in 1..Len(s) : s[i] \in WhiteSpace

\* `${name} (Copy)`
CopySuffix == <<" ", "(", "C", "o", "p", "y", ")">>

\* the suffix of a target handle's id, `${field.name}-left`
LeftSuffix == <<"-", "l", "e", "f", "t">>

\* h.endsWith('-left')
EndsWithLeft(h) ==
    /\ Len(h) >= Len(LeftSuffix)
    /\ SubSeq(h, Len(h) - Len(LeftSuffix) + 1, Len(h)) = LeftSuffix

\* h.replace('-left', ''): the FIRST occurrence is removed
ReplaceLeft(h) ==
    LET hits == {i \in 1..(Len(h) - Len(LeftSuffix) + 1) :
                    SubSeq(h, i, i + Len(LeftSuffix) - 1) = LeftSuffix}
    IN IF hits = {} THEN h
       ELSE LET i == CHOOSE j \in hits : \A k \in hits : j <= k
            IN SubSeq(h, 1, i - 1) \o SubSeq(h, i + Len(LeftSuffix), Len(h))

----------------------------------------------------------------------------
(* The domain model.                                                       *)

\* Field.foreignKey absent (undefined / null)
NoFK == [tableId |-> 0, fieldName |-> <<>>]

Field(id, name, type, primary, fk) ==
    [id |-> id, name |-> name, type |-> type, primary |-> primary, foreignKey |-> fk]

\* A table definition carries no id of its own when id = 0 (Omit<TableNode, 'id'>).
Table(id, name, fields, position) ==
    [id |-> id, name |-> name, fields |-> fields, position |-> position]

Position(x, y) == [x |-> x, y |-> y]

Connection(id, sourceId, sourceField, targetId, targetField) ==
    [id |-> id, sourceId |-> sourceId, sourceField |-> sourceField,
     targetId |-> targetId, targetField |-> targetField, relationshipType |-> "oneToMany"]

NullProject == [open |-> FALSE, tables |-> <<>>, connections |-> <<>>]

\* tables.find(t => t.id === id): is there one, and the first one
HasTable(ts, id) == \E i \in 1..Len(ts) : ts[i].id = id
FindTable(ts, id) == ts[CHOOSE i \in 1..Len(ts) : ts[i].id = id /\ \A j \in 1..(i-1) : ts[j].id # id]

\* table.fields.some(f => f.name === name)
HasField(t, name) == \E i \in 1..Len(t.fields) : t.fields[i].name = name

HasConnection(cs, id) == \E i \in 1..Len(cs) : cs[i].id = id
FindConnection(cs, id) == cs[CHOOSE i \in 1..Len(cs) : cs[i].id = id /\ \A j \in 1..(i-1) : cs[j].id # id]

----------------------------------------------------------------------------
(* Validation (utils/validation).                                          *)

\* validateField(field).valid
validateField(field) ==
    /\ ~IsBlank(field.name)
    /\ IsIdentifier(field.name)
    /\ field.type # ""

\* validateTable without the test of the name against the identifier regex
validateTableNameUnchecked(table) ==
    /\ ~IsBlank(table.name)
    /\ Len(table.fields) # 0
    /\ \A i \in 1..Len(table.fields) : validateField(table.fields[i])

\* validateTable(table).valid
validateTable(table) ==
    /\ ~IsBlank(table.name)
    /\ IsIdentifier(table.name)
    /\ Len(table.fields) # 0
    /\ \A i \in 1..Len(table.fields) : validateField(table.fields[i])

\* validateConnection without the test of the target field
validateConnectionTargetUnchecked(conn, ts) ==
    /\ HasTable(ts, conn.sourceId)
    /\ HasTable(ts, conn.targetId)
    /\ HasField(FindTable(ts, conn.sourceId), conn.sourceField)

\* useConnections.validateConnection(conn, tables)
validateConnection(conn, ts) ==
    /\ HasTable(ts, conn.sourceId)
    /\ HasTable(ts, conn.targetId)
    /\ HasField(FindTable(ts, conn.sourceId), conn.sourceField)
    /\ HasField(FindTable(ts, conn.targetId), conn.targetField)

----------------------------------------------------------------------------
(* The mutation service.  A call reads the values its closure captured at  *)
(* the last render (r: project, tables, connections) and hands the         *)
(* provider an updater; st is the state the queued updaters have produced  *)
(* so far.  A call returns [ok, st]: what it reports and the state after   *)
(* its updater (unchanged when it issues none).                            *)

Rendered == [project |-> project, tables |-> tables, connections |-> connections]

Rejected(st) == [ok |-> FALSE, st |-> st]

\* a mutation-service call a handler issued: the function and the id it is about
Call(op, id) == [op |-> op, id |-> id]

\* updateProject(updater) with the updater's setTables / setConnections
Updated(st, newTables, newConnections, localTables, localConnections) ==
    [ok |-> TRUE,
     st |-> [project |-> [open |-> TRUE, tables |-> newTables, connections |-> newConnections],
             tables |-> localTables,
             connections |-> localConnections]]

\* { id: uuidv4(), ...table, position }: an id the definition carries wins
NewTable(def, position, newId) ==
    Table(IF def.id # 0 THEN def.id ELSE newId, def.name, def.fields, position)

\* useTables.addTable(table, position)
addTable(r, st, def, position, newId) ==
    IF ~r.project.open THEN Rejected(st)
    ELSE LET newTable == NewTable(def, position, newId)
         IN IF ~validateTable(newTable) THEN Rejected(st)
            ELSE LET pushed == Append(st.project.tables, newTable)
                 IN Updated(st, pushed, st.project.connections, pushed, st.connections)

\* updateTable without the test that a project is open
updateTableProjectUnchecked(r, st, table) ==
    LET Swap(t) == IF t.id = table.id THEN table ELSE t
        updatedTables == [n \in 1..Len(r.tables) |-> Swap(r.tables[n])]
    IN IF ~validateTable(table) THEN Rejected(st)
       ELSE Updated(st, updatedTables, st.project.connections, updatedTables, st.connections)

\* useTables.updateTable(table)
updateTable(r, st, table) ==
    IF ~r.project.open THEN Rejected(st)
    ELSE LET Swap(t) == IF t.id = table.id THEN table ELSE t
             updatedTables == [n \in 1..Len(r.tables) |-> Swap(r.tables[n])]
         IN IF ~validateTable(table) THEN Rejected(st)
            ELSE Updated(st, updatedTables, st.project.connections, updatedTables, st.connections)

\* useTables.deleteTable(id)
deleteTable(r, st, id) ==
    IF ~r.project.open THEN Rejected(st)
    ELSE LET Keep(t) == t.id # id
             updatedTables == SelectSeq(r.tables, Keep)
         IN Updated(st, updatedTables, st.project.connections, updatedTables, st.connections)

\* the copy with { ...field } only: the fields keep the ids of the original's
DuplicateOfFieldIdsKept(originalTable, base) ==
    Table(base + Len(originalTable.fields) + 1,
          originalTable.name \o CopySuffix,
          originalTable.fields,
          Position(originalTable.position.x + 20, originalTable.position.y + 20))

\* the copy with { ...originalTable } and no id of its own: it keeps the original's id
DuplicateOfTableIdKept(originalTable, base) ==
    Table(originalTable.id,
          originalTable.name \o CopySuffix,
          [i \in 1..Len(originalTable.fields) |-> [originalTable.fields[i] EXCEPT !.id = base + i]],
          Position(originalTable.position.x + 20, originalTable.position.y + 20))

\* the copy with the foreign keys reset: no field of it carries an annotation
DuplicateOfForeignKeysReset(originalTable, base) ==
    Table(base + Len(originalTable.fields) + 1,
          originalTable.name \o CopySuffix,
          [i \in 1..Len(originalTable.fields) |->
              [originalTable.fields[i] EXCEPT !.id = base + i, !.foreignKey = NoFK]],
          Position(originalTable.position.x + 20, originalTable.position.y + 20))

\* the copy duplicateTable builds: field ids base+1 .. base+n, then the table id
DuplicateOf(originalTable, base) ==
    LET n == Len(originalTable.fields)
        duplicatedFields ==
            [i \in 1..n |-> [originalTable.fields[i] EXCEPT !.id = base + i]]
    IN Table(base + n + 1,
             originalTable.name \o CopySuffix,
             duplicatedFields,
             Position(originalTable.position.x + 20, originalTable.position.y + 20))

\* useTables.duplicateTable(id)
duplicateTable(r, st, id, base) ==
    IF ~r.project.open THEN Rejected(st)
    ELSE IF ~HasTable(r.tables, id) THEN Rejected(st)
    ELSE LET newTable == DuplicateOf(FindTable(r.tables, id), base)
             updatedTables == Append(st.project.tables, newTable)
         IN Updated(st, updatedTables, st.project.connections, updatedTables, st.connections)

\* useConnections.addConnection(connection)
addConnection(r, st, conn, newId) ==
    IF ~r.project.open THEN Rejected(st)
    ELSE IF ~validateConnection([conn EXCEPT !.id = 0], r.project.tables) THEN Rejected(st)
    ELSE LET newConnection == [conn EXCEPT !.id = newId]
             updatedConnections == Append(st.project.connections, newConnection)
         IN Updated(st, st.project.tables, updatedConnections, st.tables, updatedConnections)

\* updateConnection that adds the connection when none has its id
updateConnectionOrAdd(r, st, conn) ==
    IF ~r.project.open THEN Rejected(st)
    ELSE IF ~validateConnection(conn, r.project.tables) THEN Rejected(st)
    ELSE LET Swap(c) == IF c.id = conn.id THEN conn ELSE c
             swapped == [n \in 1..Len(r.connections) |-> Swap(r.connections[n])]
             updatedConnections ==
                 IF HasConnection(r.connections, conn.id) THEN swapped ELSE Append(swapped, conn)
         IN Updated(st, st.project.tables, updatedConnections, st.tables, updatedConnections)

\* useConnections.updateConnection(connection)
updateConnection(r, st, conn) ==
    IF ~r.project.open THEN Rejected(st)
    ELSE IF ~validateConnection(conn, r.project.tables) THEN Rejected(st)
    ELSE LET Swap(c) == IF c.id = conn.id THEN conn ELSE c
             updatedConnections == [n \in 1..Len(r.connections) |-> Swap(r.connections[n])]
         IN Updated(st, st.project.tables, updatedConnections, st.tables, updatedConnections)

\* deleteConnection's updater without its step 2
ClearForeignKeySkipped(ts, connectionToDelete) == ts

\* deleteConnection's updater with a step 2 that clears every field of the
\* source table
ClearForeignKeyOfTable(ts, connectionToDelete) ==
    LET ClearField(field) == [field EXCEPT !.foreignKey = NoFK]
        ClearTable(table) ==
            IF table.id = connectionToDelete.sourceId
            THEN [table EXCEPT !.fields = [n \in 1..Len(table.fields) |-> ClearField(table.fields[n])]]
            ELSE table
    IN [n \in 1..Len(ts) |-> ClearTable(ts[n])]

\* deleteConnection's updater, step 2: the source field loses its annotation
ClearForeignKey(ts, connectionToDelete) ==
    LET ClearField(field) ==
            IF field.name = connectionToDelete.sourceField /\ field.foreignKey # NoFK
            THEN [field EXCEPT !.foreignKey = NoFK]
            ELSE field
        ClearTable(table) ==
            IF table.id = connectionToDelete.sourceId
            THEN [table EXCEPT !.fields = [n \in 1..Len(table.fields) |-> ClearField(table.fields[n])]]
            ELSE table
    IN [n \in 1..Len(ts) |-> ClearTable(ts[n])]

\* useConnections.deleteConnection(id); the local connections state is not set
deleteConnection(r, st, id) ==
    IF ~r.project.open THEN Rejected(st)
    ELSE IF ~HasConnection(r.project.connections, id) THEN Rejected(st)
    ELSE LET connectionToDelete == FindConnection(r.project.connections, id)
             Keep(c) == c.id # id
             updatedConnections == SelectSeq(st.project.connections, Keep)
             updatedTables == ClearForeignKey(st.project.tables, connectionToDelete)
         IN Updated(st, updatedTables, updatedConnections, st.tables, st.connections)

----------------------------------------------------------------------------
(* The canvas synchronisation layer (DBCanvas).                            *)

\* reactFlowNodes: one node per table
reactFlowNodes(p) ==
    LET NodeOf(table) ==
            [id |-> table.id, position |-> table.position, data |-> table, selected |-> FALSE]
    IN [n \in 1..Len(p.tables) |-> NodeOf(p.tables[n])]

\* reactFlowEdges: one edge per connection, drawn from the referenced table
reactFlowEdges(p) ==
    LET EdgeOf(connection) ==
            [id |-> connection.id,
             source |-> connection.targetId,
             target |-> connection.sourceId,
             sourceHandle |-> connection.targetField,
             targetHandle |-> connection.sourceField \o LeftSuffix,
             selected |-> FALSE]
    IN [n \in 1..Len(p.connections) |-> EdgeOf(p.connections[n])]

\* the orphan sweep's test without its look at the field names
IsInvalidConnectionTablesOnly(conn, ts) ==
    \/ ~HasTable(ts, conn.sourceId)
    \/ ~HasTable(ts, conn.targetId)

\* the orphan sweep's test: the connection no longer resolves
IsInvalidConnection(conn, ts) ==
    \/ ~HasTable(ts, conn.sourceId)
    \/ ~HasTable(ts, conn.targetId)
    \/ ~HasField(FindTable(ts, conn.sourceId), conn.sourceField)
    \/ ~HasField(FindTable(ts, conn.targetId), conn.targetField)

invalidConnections(p) ==
    LET Bad(conn) == IsInvalidConnection(conn, p.tables)
    IN SelectSeq(p.connections, Bad)

\* the sweep's toast.warning without its count
warningCountNone(invalid) == 0

\* toast.warning(`Found and removed ${invalidConnections.length} invalid connections`),
\* shown when there is an invalid connection
warningCount(invalid) == Len(invalid)

\* the calls of the forEach: one deleteConnection for each invalid connection
sweepCalls(invalid) == [n \in 1..Len(invalid) |-> Call("deleteConnection", invalid[n].id)]

\* invalidConnections.forEach(conn => connectionsApi.deleteConnection(conn.id))
RECURSIVE Sweep(_, _, _)
Sweep(r, st, invalid) ==
    IF invalid = <<>> THEN st
    ELSE Sweep(r, deleteConnection(r, st, Head(invalid).id).st, Tail(invalid))

\* targetHandle.endsWith('-left') ? targetHandle.replace('-left', '') : targetHandle
TargetFieldOf(targetHandle) ==
    IF EndsWithLeft(targetHandle) THEN ReplaceLeft(targetHandle) ELSE targetHandle

\* onConnect: the source table with the annotation on the fields named sourceHandle
AnnotatedSource(sourceTable, sourceHandle, target, targetField) ==
    LET Annotate(field) ==
            IF field.name = sourceHandle
            THEN [field EXCEPT !.foreignKey = [tableId |-> target, fieldName |-> targetField]]
            ELSE field
    IN [sourceTable EXCEPT !.fields = [n \in 1..Len(sourceTable.fields) |-> Annotate(sourceTable.fields[n])]]

----------------------------------------------------------------------------
(* What the last call of the mutation service was.                         *)

NoTable == Table(0, <<>>, <<>>, Position(0, 0))
NoConnection == Connection(0, 0, <<>>, 0, <<>>)

\* op: the call; ok: what it reported (for a connect gesture: addConnection's
\* report, and ok2 updateTable's); id, table, conn: its arguments or what it made;
\* before: the snapshot it was called on; prior: for a deleteConnection that
\* deletes what the call just before it created, the snapshot before that call.
LastCall(op, ok, ok2, id, table, conn, before, prior) ==
    [op |-> op, ok |-> ok, ok2 |-> ok2, id |-> id, table |-> table, conn |-> conn,
     before |-> before, prior |-> prior]

----------------------------------------------------------------------------
(* Inputs.                                                                 *)

NameUsers  == <<"u">>
NameOrders == <<"o">>
FieldId    == <<"i">>
FieldUser  == <<"k">>
FieldNew   == <<"z">>

\* what a caller passes as a field before it has an id: [name, type, primary]
FieldSpec(name, type, primary) == [name |-> name, type |-> type, primary |-> primary]

\* table definitions the schema accepts
ValidDefs ==
    { [name |-> NameUsers,  fields |-> <<FieldSpec(FieldId, "INT", TRUE)>>],
      [name |-> NameOrders, fields |-> <<FieldSpec(FieldId, "INT", TRUE),
                                         FieldSpec(FieldUser, "INT", FALSE)>>] }

\* a definition with two primary fields
TwoPrimaryDefs ==
    { [name |-> <<"a">>, fields |-> <<FieldSpec(FieldId, "INT", TRUE),
                                      FieldSpec(FieldUser, "INT", TRUE)>>] }

BadNames == { <<>>, <<" ">>, <<"1", "u">>, <<"u", " ">> }

\* table definitions validation refuses
InvalidDefs ==
    { [name |-> n, fields |-> <<FieldSpec(FieldId, "INT", TRUE)>>] : n \in BadNames }
    \cup { [name |-> NameUsers, fields |-> <<>>] }
    \cup { [name |-> NameUsers, fields |-> <<FieldSpec(n, "INT", FALSE)>>] : n \in BadNames }
    \cup { [name |-> NameUsers, fields |-> <<FieldSpec(FieldId, "", FALSE)>>] }

\* the definitions the editor's own checks let through, and all of them
EditorDefs == ValidDefs
TableDefs == ValidDefs \cup TwoPrimaryDefs \cup InvalidDefs

\* the caller gives each field its id (uuidv4) before addTable is called
WithFieldIds(def, base) ==
    Table(0, def.name,
          [i \in 1..Len(def.fields) |->
              Field(base + i, def.fields[i].name, def.fields[i].type,
                    def.fields[i].primary, NoFK)],
          Position(0, 0))

\* a table id no table has
MissingId == MaxWork + 1
\* a field name no table uses
FieldMissing == <<"y">>

\* the tables an editor may hand to updateTable in place of t: a field renamed,
\* removed, annotated or stripped of its annotation; a table that is not in
\* the project
EditedTables(t, p) ==
    LET idx == 1..Len(t.fields)
        targets == UNION {{[tableId |-> p.tables[j].id, fieldName |-> p.tables[j].fields[k].name] :
                              k \in 1..Len(p.tables[j].fields)} : j \in 1..Len(p.tables)}
        Drop(i) == SubSeq(t.fields, 1, i - 1) \o SubSeq(t.fields, i + 1, Len(t.fields))
    IN    {[t EXCEPT !.fields[i].name = FieldNew] : i \in idx}
     \cup {[t EXCEPT !.fields = Drop(i)] : i \in idx}
     \cup {[t EXCEPT !.fields[i].foreignKey = NoFK] : i \in idx}
     \cup {[t EXCEPT !.fields[i].foreignKey = fk] : i \in idx, fk \in targets}
     \cup {[t EXCEPT !.id = MissingId]}

\* the same, and a second field made primary and the tables validation refuses
AnyEditedTables(t, p) ==
    LET idx == 1..Len(t.fields)
    IN    EditedTables(t, p)
     \cup {[t EXCEPT !.fields[i].primary = TRUE] : i \in idx}
     \cup {[t EXCEPT !.fields[i].type = ""] : i \in idx}
     \cup {[t EXCEPT !.fields[i].name = n] : i \in idx, n \in BadNames}
     \cup {[t EXCEPT !.name = n] : n \in BadNames}
     \cup {[t EXCEPT !.fields = <<>>]}

\* a table that passes validation, and a connection, that a caller holds while
\* no project is open
StrayTable ==
    Table(MissingId, NameUsers, <<Field(MissingId, FieldId, "INT", TRUE, NoFK)>>, Position(0, 0))
StrayConnection == Connection(MissingId, MissingId, FieldId, MissingId, FieldId)

\* the endpoints a caller may name in a connection: the fields there are
Endpoints(p) ==
    UNION {{[tableId |-> p.tables[j].id, fieldName |-> p.tables[j].fields[k].name] :
               k \in 1..Len(p.tables[j].fields)} : j \in 1..Len(p.tables)}

\* the same, and a field that is missing and a table that is missing
AnyEndpoints(p) ==
    Endpoints(p)
    \cup {[tableId |-> p.tables[j].id, fieldName |-> FieldMissing] : j \in 1..Len(p.tables)}
    \cup {[tableId |-> MissingId, fieldName |-> FieldId]}

----------------------------------------------------------------------------
(* The state machine.                                                      *)

\* what the behaviour has used of its bound
Work == uuid + edits

Init ==
    /\ project = NullProject
    /\ tables = <<>>
    /\ connections = <<>>
    /\ nodes = <<>>
    /\ edges = <<>>
    /\ phase = "Idle"
    /\ uuid = 0
    /\ edits = 0
    /\ last = LastCall("none", FALSE, FALSE, 0, NoTable, NoConnection, NullProject, NullProject)
    /\ copiedTableData = NoTable
    /\ warning = 0
    /\ issued = <<>>

\* the state the handler's updaters leave, once React has applied them
CommitNodes(out, newNodes) ==
    /\ project' = out.st.project
    /\ tables' = out.st.tables
    /\ connections' = out.st.connections
    /\ phase' = IF out.ok THEN "Reconciling" ELSE phase
    /\ nodes' = newNodes
    /\ UNCHANGED <<edges, copiedTableData, warning, issued>>

\* the same, for a handler that leaves the nodes alone
Commit(out) == CommitNodes(out, nodes)

\* createProject / openProject: an empty project becomes the current one
OpenProject ==
    /\ ~project.open
    /\ phase = "Idle"
    /\ project' = [open |-> TRUE, tables |-> <<>>, connections |-> <<>>]
    /\ phase' = "Reconciling"
    /\ UNCHANGED <<tables, connections, nodes, edges, uuid, edits, last, copiedTableData, warning, issued>>

\* a caller builds a definition and calls addTable(definition, {x: 0, y: 0})
AddTableFrom(defs) ==
    /\ phase = "Idle"
    /\ \E d \in defs :
        LET n == Len(d.fields)
            def == WithFieldIds(d, uuid)
            out == addTable(Rendered, Rendered, def, Position(0, 0), uuid + n + 1)
        IN /\ Work + n + 1 <= MaxWork
           /\ Commit(out)
           /\ uuid' = IF out.ok THEN uuid + n + 1 ELSE uuid
           /\ last' = LastCall("addTable", out.ok, FALSE, uuid + n + 1,
                               NewTable(def, Position(0, 0), uuid + n + 1),
                               NoConnection, project, NullProject)
           /\ UNCHANGED edits

\* a caller edits one of the tables and calls updateTable(table)
UpdateTableFrom(any) ==
    /\ phase = "Idle"
    /\ Work + 1 <= MaxWork
    /\ \E i \in 1..Len(project.tables) : \E t \in (IF any THEN AnyEditedTables(project.tables[i], project)
                                                   ELSE EditedTables(project.tables[i], project)) :
        LET out == updateTable(Rendered, Rendered, t)
        IN /\ Commit(out)
           /\ edits' = IF out.ok THEN edits + 1 ELSE edits
           /\ last' = LastCall("updateTable", out.ok, FALSE, t.id, t, NoConnection,
                               project, NullProject)
           /\ UNCHANGED uuid

\* deleteTable(id), for a table there is or an id no table has
DeleteTable ==
    /\ phase = "Idle"
    /\ \E id \in {project.tables[i].id : i \in 1..Len(project.tables)} \cup {MissingId} :
        LET out == deleteTable(Rendered, Rendered, id)
        IN /\ Commit(out)
           /\ last' = LastCall("deleteTable", out.ok, FALSE, id, NoTable, NoConnection,
                               project, NullProject)
           /\ UNCHANGED <<uuid, edits>>

\* duplicateTable(id), for a table there is or an id no table has
DuplicateTable ==
    /\ phase = "Idle"
    /\ \E id \in {project.tables[i].id : i \in 1..Len(project.tables)} \cup {MissingId} :
        LET n == IF HasTable(tables, id) THEN Len(FindTable(tables, id).fields) ELSE 0
            out == duplicateTable(Rendered, Rendered, id, uuid)
        IN /\ Work + n + 1 <= MaxWork
           /\ Commit(out)
           /\ uuid' = IF out.ok THEN uuid + n + 1 ELSE uuid
           /\ last' = LastCall("duplicateTable", out.ok, FALSE, id,
                               IF out.ok THEN DuplicateOf(FindTable(tables, id), uuid)
                               ELSE NoTable,
                               NoConnection, project, NullProject)
           /\ UNCHANGED edits

\* onConnect without its look at the field names before it calls addConnection
onConnectFieldsUnchecked(r, st, source, sourceHandle, target, targetHandle, newId) ==
    LET targetField == TargetFieldOf(targetHandle)
        none == [ok |-> FALSE, ok2 |-> FALSE, st |-> st, conn |-> NoConnection, table |-> NoTable,
                 calls |-> 0]
    IN IF source = 0 \/ target = 0 \/ sourceHandle = <<>> \/ targetHandle = <<>> THEN none
       ELSE IF ~HasTable(r.project.tables, source) \/ ~HasTable(r.project.tables, target) THEN none
       ELSE LET sourceTable == FindTable(r.project.tables, source)
                conn == Connection(0, source, sourceHandle, target, targetField)
                added == addConnection(r, st, conn, newId)
                updatedSourceTable ==
                    AnnotatedSource(sourceTable, sourceHandle, target, targetField)
                annotated == updateTable(r, added.st, updatedSourceTable)
            IN IF ~added.ok THEN [none EXCEPT !.calls = 1]
               ELSE [ok |-> TRUE, ok2 |-> annotated.ok, st |-> annotated.st,
                     conn |-> [conn EXCEPT !.id = newId], table |-> updatedSourceTable,
                     calls |-> 2]

\* what onConnect(params) leaves: [ok, ok2, st, conn, table, calls]; calls is
\* the number of mutation-service calls it issued
onConnect(r, st, source, sourceHandle, target, targetHandle, newId) ==
    LET targetField == TargetFieldOf(targetHandle)
        none == [ok |-> FALSE, ok2 |-> FALSE, st |-> st, conn |-> NoConnection, table |-> NoTable,
                 calls |-> 0]
    IN IF source = 0 \/ target = 0 \/ sourceHandle = <<>> \/ targetHandle = <<>> THEN none
       ELSE IF ~HasTable(r.project.tables, source) \/ ~HasTable(r.project.tables, target) THEN none
       ELSE LET sourceTable == FindTable(r.project.tables, source)
                targetTable == FindTable(r.project.tables, target)
            IN IF ~HasField(sourceTable, sourceHandle) \/ ~HasField(targetTable, targetField)
               THEN none
               ELSE LET conn == Connection(0, source, sourceHandle, target, targetField)
                        added == addConnection(r, st, conn, newId)
                        updatedSourceTable ==
                            AnnotatedSource(sourceTable, sourceHandle, target, targetField)
                        annotated == updateTable(r, added.st, updatedSourceTable)
                    IN IF ~added.ok THEN [none EXCEPT !.calls = 1]
                       ELSE [ok |-> TRUE, ok2 |-> annotated.ok, st |-> annotated.st,
                             conn |-> [conn EXCEPT !.id = newId], table |-> updatedSourceTable,
                             calls |-> 2]

\* the handles a node shows: a source handle and a target handle per field
SourceHandles(node) == {node.data.fields[k].name : k \in 1..Len(node.data.fields)}
TargetHandles(node) == {node.data.fields[k].name \o LeftSuffix : k \in 1..Len(node.data.fields)}

\* the ends a connect gesture may report: a handle of a node, or a stale end:
\* no node, a node that is gone, no handle, a handle of a field that is gone
SourceEnds(ns, stale) ==
    IF stale
    THEN {[node |-> 0, handle |-> FieldId], [node |-> MissingId, handle |-> FieldId]}
         \cup UNION {{[node |-> ns[i].id, handle |-> h] : h \in {<<>>, FieldMissing}} :
                     i \in 1..Len(ns)}
    ELSE UNION {{[node |-> ns[i].id, handle |-> h] : h \in SourceHandles(ns[i])} :
                i \in 1..Len(ns)}
TargetEnds(ns, stale) ==
    IF stale
    THEN {[node |-> 0, handle |-> FieldId \o LeftSuffix],
          [node |-> MissingId, handle |-> FieldId \o LeftSuffix]}
         \cup UNION {{[node |-> ns[i].id, handle |-> h] :
                         h \in {<<>>, FieldMissing \o LeftSuffix}} :
                     i \in 1..Len(ns)}
    ELSE UNION {{[node |-> ns[i].id, handle |-> h] : h \in TargetHandles(ns[i])} :
                i \in 1..Len(ns)}

\* the gestures: from a handle of a node to a handle of a node, and with `any`
\* also those with a stale end
ConnectGestures(ns, any) ==
    (SourceEnds(ns, FALSE) \X TargetEnds(ns, FALSE))
    \cup (IF any
          THEN (SourceEnds(ns, TRUE) \X (TargetEnds(ns, FALSE) \cup TargetEnds(ns, TRUE)))
               \cup (SourceEnds(ns, FALSE) \X TargetEnds(ns, TRUE))
          ELSE {})

\* onConnect with the immediate visual edge update: an accepted connection is
\* drawn at once
onConnectEdgesDrawn(es, out) ==
    IF out.ok THEN es \o reactFlowEdges([connections |-> <<out.conn>>]) ELSE es

\* the edges onConnect leaves: it makes no setEdges call
onConnectEdges(es, out) == es

\* a connect gesture: from a source handle of one node to a target handle of a
\* node; a gesture that made no connection is recorded with what it reported,
\* one that issued no call as "connectAborted"
ConnectFrom(any) ==
    /\ phase = "Idle"
    /\ project.open
    /\ Work + 1 <= MaxWork
    /\ \E gesture \in ConnectGestures(nodes, any) :
        LET s == gesture[1]
            t == gesture[2]
            out == onConnect(Rendered, Rendered, s.node, s.handle, t.node, t.handle, uuid + 1)
        IN /\ project' = out.st.project
           /\ tables' = out.st.tables
           /\ connections' = out.st.connections
           /\ phase' = IF out.ok THEN "Reconciling" ELSE phase
           /\ edges' = onConnectEdges(edges, out)
           /\ uuid' = IF out.ok THEN uuid + 1 ELSE uuid
           /\ last' = IF out.ok
                      THEN LastCall("connect", out.ok, out.ok2, out.conn.id, out.table, out.conn,
                                    project, NullProject)
                      ELSE LastCall(IF out.calls = 0 THEN "connectAborted" ELSE "connect",
                                    FALSE, FALSE, 0, NoTable,
                                    Connection(0, s.node, s.handle, t.node, t.handle),
                                    project, NullProject)
           /\ issued' = SubSeq(<<Call("addConnection", uuid + 1),
                                  Call("updateTable", s.node)>>, 1, out.calls)
           /\ UNCHANGED <<nodes, edits, copiedTableData, warning>>

\* updateConnection(connection): one of the connections, with other endpoints,
\* or a connection with an id no connection has
UpdateConnectionFrom(any) ==
    /\ phase = "Idle"
    /\ Work + 1 <= MaxWork
    /\ \E i \in 1..Len(project.connections) :
       \E s \in (IF any THEN AnyEndpoints(project) ELSE Endpoints(project)),
          t \in (IF any THEN AnyEndpoints(project) ELSE Endpoints(project)),
          id \in {project.connections[i].id, MissingId} :
        LET conn == Connection(id, s.tableId, s.fieldName, t.tableId, t.fieldName)
            out == updateConnection(Rendered, Rendered, conn)
        IN /\ Commit(out)
           /\ edits' = IF out.ok THEN edits + 1 ELSE edits
           /\ last' = LastCall("updateConnection", out.ok, FALSE, id, NoTable, conn,
                               project, NullProject)
           /\ UNCHANGED uuid

\* deleteConnection(id), for a connection there is or an id no connection has
DeleteConnection ==
    /\ phase = "Idle"
    /\ \E id \in {project.connections[i].id : i \in 1..Len(project.connections)} \cup {MissingId} :
        LET out == deleteConnection(Rendered, Rendered, id)
            undoes == out.ok /\ last.op = "connect" /\ last.ok /\ last.id = id
        IN /\ Commit(out)
           /\ last' = LastCall("deleteConnection", out.ok, FALSE, id, NoTable,
                               IF out.ok THEN FindConnection(project.connections, id)
                               ELSE NoConnection,
                               project,
                               IF undoes THEN last.before ELSE NullProject)
           /\ UNCHANGED <<uuid, edits>>

\* addConnection(connection) called directly, with any endpoints
AddConnectionApi ==
    /\ phase = "Idle"
    /\ Work + 1 <= MaxWork
    /\ \E s \in AnyEndpoints(project), t \in AnyEndpoints(project) :
        LET conn == Connection(0, s.tableId, s.fieldName, t.tableId, t.fieldName)
            out == addConnection(Rendered, Rendered, conn, uuid + 1)
        IN /\ Commit(out)
           /\ uuid' = IF out.ok THEN uuid + 1 ELSE uuid
           /\ last' = LastCall("addConnection", out.ok, FALSE, uuid + 1, NoTable, conn,
                               project, NullProject)
           /\ UNCHANGED edits

\* nodes.find((node) => node.selected)
HasSelected(ns) == \E i \in 1..Len(ns) : ns[i].selected
SelectedNode(ns) ==
    ns[CHOOSE i \in 1..Len(ns) : ns[i].selected /\ \A j \in 1..(i-1) : ~ns[j].selected]

\* a click on node i selects it and no other; a click on the pane (i = 0) none
SelectNode ==
    /\ phase = "Idle"
    /\ \E i \in 0..Len(nodes) :
          nodes' = [n \in 1..Len(nodes) |-> [nodes[n] EXCEPT !.selected = (n = i)]]
    /\ UNCHANGED <<project, tables, connections, edges, phase, uuid, edits, last,
                   copiedTableData, warning, issued>>

\* const { ...dataToCopy } = tableData: every property of the table is kept
dataToCopy(tableData) == tableData

\* the copy shortcut: the selected node's table is held
Copy ==
    /\ phase = "Idle"
    /\ HasSelected(nodes)
    /\ HasTable(project.tables, SelectedNode(nodes).id)
    /\ copiedTableData' = dataToCopy(FindTable(project.tables, SelectedNode(nodes).id))
    /\ UNCHANGED <<project, tables, connections, nodes, edges, phase, uuid, edits, last, warning, issued>>

\* where a paste puts the table: off the selected node, or the default place
pastePosition(ns) ==
    IF HasSelected(ns)
    THEN Position(SelectedNode(ns).position.x + 50, SelectedNode(ns).position.y + 50)
    ELSE Position(100, 100)

\* { ...copiedTableData, name: `${name} (Copy)`, fields: fields.map(f => ({ ...f })) }
newTableData(copied) == [copied EXCEPT !.name = copied.name \o CopySuffix]

\* the paste shortcut: addTable(newTableData, pastePosition)
Paste ==
    /\ phase = "Idle"
    /\ copiedTableData # NoTable
    /\ Work + 1 <= MaxWork
    /\ LET def == newTableData(copiedTableData)
           out == addTable(Rendered, Rendered, def, pastePosition(nodes), uuid + 1)
       IN /\ Commit(out)
          /\ uuid' = IF out.ok THEN uuid + 1 ELSE uuid
          /\ last' = LastCall("paste", out.ok, FALSE, uuid + 1, def, NoConnection,
                              project, NullProject)
          /\ UNCHANGED edits

\* updateTable, addConnection and updateConnection called while no project is
\* open (addTable, deleteTable, duplicateTable and deleteConnection above are
\* not bound to an open project)
UpdateTableNoProject ==
    /\ ~project.open
    /\ phase = "Idle"
    /\ Work + 1 <= MaxWork
    /\ LET out == updateTable(Rendered, Rendered, StrayTable)
       IN /\ Commit(out)
          /\ edits' = IF out.ok THEN edits + 1 ELSE edits
          /\ last' = LastCall("updateTable", out.ok, FALSE, StrayTable.id, StrayTable,
                              NoConnection, project, NullProject)
          /\ UNCHANGED uuid

AddConnectionNoProject ==
    /\ ~project.open
    /\ phase = "Idle"
    /\ Work + 1 <= MaxWork
    /\ LET out == addConnection(Rendered, Rendered, [StrayConnection EXCEPT !.id = 0], uuid + 1)
       IN /\ Commit(out)
          /\ uuid' = IF out.ok THEN uuid + 1 ELSE uuid
          /\ last' = LastCall("addConnection", out.ok, FALSE, uuid + 1, NoTable,
                              [StrayConnection EXCEPT !.id = 0], project, NullProject)
          /\ UNCHANGED edits

UpdateConnectionNoProject ==
    /\ ~project.open
    /\ phase = "Idle"
    /\ Work + 1 <= MaxWork
    /\ LET out == updateConnection(Rendered, Rendered, StrayConnection)
       IN /\ Commit(out)
          /\ edits' = IF out.ok THEN edits + 1 ELSE edits
          /\ last' = LastCall("updateConnection", out.ok, FALSE, StrayConnection.id, NoTable,
                              StrayConnection, project, NullProject)
          /\ UNCHANGED uuid

\* an edge change React Flow reports: the removal of an edge, or its selection
EdgeChange(type, id) == [type |-> type, id |-> id]

\* applyEdgeChanges(changes, edges): a removed edge goes, a selected one is selected
applyEdgeChanges(changes, es) ==
    LET Removed(edge) == \E c \in 1..Len(changes) :
                            changes[c].type = "remove" /\ changes[c].id = edge.id
        Selected(edge) == \E c \in 1..Len(changes) :
                             changes[c].type = "select" /\ changes[c].id = edge.id
        Kept(edge) == ~Removed(edge)
        kept == SelectSeq(es, Kept)
    IN [n \in 1..Len(kept) |-> IF Selected(kept[n]) THEN [kept[n] EXCEPT !.selected = TRUE]
                               ELSE kept[n]]

\* handleEdgesChange that hands every change on to applyEdgeChanges
nextChangesAll(changes) == changes

\* nextChanges: the changes that are not removals
nextChanges(changes) ==
    LET NotRemove(change) == change.type # "remove"
    IN SelectSeq(changes, NotRemove)

\* the reduce of handleEdgesChange with deleteConnection for every change,
\* whatever its type
RECURSIVE removeEdgesOfAnyType(_, _, _, _)
removeEdgesOfAnyType(r, changes, c, acc) ==
    IF c > Len(changes) THEN acc
    ELSE LET out == deleteConnection(r, acc.st, changes[c].id)
         IN removeEdgesOfAnyType(r, changes, c + 1,
                [count |-> IF out.ok THEN acc.count + 1 ELSE acc.count, st |-> out.st,
                 calls |-> Append(acc.calls, Call("deleteConnection", changes[c].id))])

\* the reduce of handleEdgesChange with a removal that is also handed to the
\* edge's own delete handler: deleteConnection is called twice for it
RECURSIVE removeEdgesTwice(_, _, _, _)
removeEdgesTwice(r, changes, c, acc) ==
    IF c > Len(changes) THEN acc
    ELSE IF changes[c].type # "remove" THEN removeEdgesTwice(r, changes, c + 1, acc)
    ELSE LET out == deleteConnection(r, acc.st, changes[c].id)
             again == deleteConnection(r, out.st, changes[c].id)
         IN removeEdgesTwice(r, changes, c + 1,
                [count |-> IF out.ok THEN acc.count + 1 ELSE acc.count, st |-> again.st,
                 calls |-> acc.calls \o <<Call("deleteConnection", changes[c].id),
                                          Call("deleteConnection", changes[c].id)>>])

\* the reduce of handleEdgesChange from change c on: deleteConnection for each
\* removal; acc.count calls were accepted so far, acc.calls were issued
RECURSIVE removeEdges(_, _, _, _)
removeEdges(r, changes, c, acc) ==
    IF c > Len(changes) THEN acc
    ELSE IF changes[c].type # "remove" THEN removeEdges(r, changes, c + 1, acc)
    ELSE LET out == deleteConnection(r, acc.st, changes[c].id)
         IN removeEdges(r, changes, c + 1,
                        [count |-> IF out.ok THEN acc.count + 1 ELSE acc.count, st |-> out.st,
                         calls |-> Append(acc.calls, Call("deleteConnection", changes[c].id))])

\* the batches of changes a user's gesture on the edges gives: an edge removed,
\* an edge selected, an edge selected and removed, the first two edges removed
EdgeChanges(es) ==
    [i \in 1..Len(es) |-> <<EdgeChange("remove", es[i].id)>>]
    \o [i \in 1..Len(es) |-> <<EdgeChange("select", es[i].id)>>]
    \o [i \in 1..Len(es) |-> <<EdgeChange("select", es[i].id), EdgeChange("remove", es[i].id)>>]
    \o (IF Len(es) >= 2
        THEN << <<EdgeChange("remove", es[1].id), EdgeChange("remove", es[2].id)>> >>
        ELSE <<>>)

\* handleEdgesChange(changes), for batch k of the batches
EdgesChange ==
    /\ phase = "Idle"
    /\ \E k \in 1..Len(EdgeChanges(edges)) :
        LET changes == EdgeChanges(edges)[k]
            done == removeEdges(Rendered, changes, 1,
                                [count |-> 0, st |-> Rendered, calls |-> <<>>])
        IN /\ project' = done.st.project
           /\ tables' = done.st.tables
           /\ connections' = done.st.connections
           /\ phase' = IF done.count # 0 THEN "Reconciling" ELSE phase
           /\ edges' = IF nextChanges(changes) # <<>>
                       THEN applyEdgeChanges(nextChanges(changes), edges)
                       ELSE edges
           /\ last' = LastCall("edgesChange", done.count # 0, FALSE, k, NoTable, NoConnection,
                               project, NullProject)
           /\ issued' = done.calls
    /\ UNCHANGED <<nodes, uuid, edits, copiedTableData, warning>>

\* where a dragged node is released
DropPositions == {Position(40, 60)}

\* onNodeDragStop(event, node): updateTable with the node's position, then
\* setNodes with it, whatever updateTable reported
DragStop ==
    /\ phase = "Idle"
    /\ project.open
    /\ Work + 1 <= MaxWork
    /\ \E i \in 1..Len(nodes) : \E position \in DropPositions :
        /\ HasTable(project.tables, nodes[i].id)
        /\ LET tableToUpdate == FindTable(project.tables, nodes[i].id)
               moved == [tableToUpdate EXCEPT !.position = position]
               out == updateTable(Rendered, Rendered, moved)
           IN /\ project' = out.st.project
              /\ tables' = out.st.tables
              /\ connections' = out.st.connections
              /\ phase' = IF out.ok THEN "Reconciling" ELSE phase
              /\ nodes' = [n \in 1..Len(nodes) |->
                               IF nodes[n].id = nodes[i].id
                               THEN [nodes[n] EXCEPT !.position = position]
                               ELSE nodes[n]]
              /\ issued' = <<Call("updateTable", moved.id)>>
              /\ edits' = IF out.ok THEN edits + 1 ELSE edits
              /\ last' = LastCall("dragStop", out.ok, FALSE, moved.id, moved, NoConnection,
                                  project, NullProject)
              /\ UNCHANGED <<edges, uuid, copiedTableData, warning>>

\* the options and node dimensions calculateAutoLayout gives dagre
nodesep == 100
ranksep == 150
nodeWidth == 250
nodeHeight == 200

\* the edges of the dagre graph, drawn as the connections are stored:
\* sourceId -> targetId
dagreEdgesAsStored(ns, conns) ==
    LET ids == {ns[n].id : n \in 1..Len(ns)}
    IN {<<conns[c].sourceId, conns[c].targetId>> :
           c \in {d \in 1..Len(conns) : conns[d].targetId \in ids /\ conns[d].sourceId \in ids}}

\* the edges of the dagre graph: targetId -> sourceId for every connection
\* whose two tables have nodes
dagreEdges(ns, conns) ==
    LET ids == {ns[n].id : n \in 1..Len(ns)}
    IN {<<conns[c].targetId, conns[c].sourceId>> :
           c \in {d \in 1..Len(conns) : conns[d].targetId \in ids /\ conns[d].sourceId \in ids}}

\* the rank dagre gives a node with rankdir TB: the length of the longest chain
\* of edges that ends in it, over chains of at most `rounds` edges
RECURSIVE dagreRank(_, _, _)
dagreRank(es, id, rounds) ==
    LET preds == {e[1] : e \in {f \in es : f[2] = id /\ f[1] # id}}
        ranks == {dagreRank(es, pred, rounds - 1) : pred \in preds}
    IN IF rounds = 0 \/ preds = {} THEN 0
       ELSE 1 + CHOOSE m \in ranks : \A x \in ranks : x <= m

\* dagre.layout, then positions[nodeId]: the top-left corner of each node, one
\* row per rank, the nodes of a rank side by side in the order of the nodes
dagreLayout(ns, conns) ==
    LET es == dagreEdges(ns, conns)
        rank(n) == dagreRank(es, ns[n].id, Len(ns) - 1)
        order(n) == Cardinality({k \in 1..(n - 1) : rank(k) = rank(n)})
        x(n) == order(n) * (nodeWidth + nodesep) + nodeWidth \div 2
        y(n) == rank(n) * (nodeHeight + ranksep) + nodeHeight \div 2
    IN [n \in 1..Len(ns) |->
           [id |-> ns[n].id,
            position |-> Position(x(n) - nodeWidth \div 2, y(n) - nodeHeight \div 2)]]

\* nodeUpdates: for each table of the project, in order, the position of its node
nodeUpdates(ns, proj) ==
    LET positions == dagreLayout(ns, proj.connections)
        HasPosition(t) == \E n \in 1..Len(positions) : positions[n].id = t.id
        laidOut == SelectSeq(proj.tables, HasPosition)
    IN [k \in 1..Len(laidOut) |->
           [id |-> laidOut[k].id,
            position |-> positions[CHOOSE n \in 1..Len(positions) :
                                      /\ positions[n].id = laidOut[k].id
                                      /\ \A j \in (n + 1)..Len(positions) :
                                            positions[j].id # laidOut[k].id].position]]

\* the persist loop from update k on: updateTable for each node update, every
\* call made by the same render (r); acc.count calls were accepted so far
RECURSIVE persist(_, _, _, _)
persist(r, updates, k, acc) ==
    IF k > Len(updates) THEN acc
    ELSE LET tableToUpdate == FindTable(r.project.tables, updates[k].id)
             out == updateTable(r, acc.st, [tableToUpdate EXCEPT !.position = updates[k].position])
         IN persist(r, updates, k + 1,
                    [count |-> IF out.ok THEN acc.count + 1 ELSE acc.count, st |-> out.st])

\* setNodes(nds => nds.map(...)): each node with an update takes its position
movedNodes(ns, updates) ==
    LET Moved(node) ==
            IF \E k \in 1..Len(updates) : updates[k].id = node.id
            THEN [node EXCEPT !.position =
                     updates[CHOOSE k \in 1..Len(updates) :
                                /\ updates[k].id = node.id
                                /\ \A j \in 1..(k - 1) : updates[j].id # node.id].position]
            ELSE node
    IN [n \in 1..Len(ns) |-> Moved(ns[n])]

\* calculateAutoLayout() with a catch block that does not return: the
\* positions are applied and persisted although dagre.layout threw
layoutOutcomeUncaught(r, ns, thrown) ==
    LET updates == nodeUpdates(ns, r.project)
        done == persist(r, updates, 1, [count |-> 0, st |-> r])
    IN [nodes |-> movedNodes(ns, updates),
        calls |-> Len(updates), count |-> done.count, st |-> done.st]

\* what calculateAutoLayout() leaves when dagre.layout throws (thrown) and
\* when it does not: the nodes after setNodes, the number of updateTable calls
\* of the persist loop, how many of them were accepted, and the state they leave
layoutOutcome(r, ns, thrown) ==
    LET updates == nodeUpdates(ns, r.project)
        done == persist(r, updates, 1, [count |-> 0, st |-> r])
    IN IF thrown THEN [nodes |-> ns, calls |-> 0, count |-> 0, st |-> r]
       ELSE [nodes |-> movedNodes(ns, updates),
             calls |-> Len(updates), count |-> done.count, st |-> done.st]

\* calculateAutoLayout(): the layout, setNodes once, then the persist loop;
\* mayThrow: dagre.layout may throw; budget: the work the session may come to
AutoLayoutWithin(mayThrow, budget) ==
    /\ phase = "Idle"
    /\ project.open
    /\ Len(nodes) # 0
    /\ \E thrown \in (IF mayThrow THEN BOOLEAN ELSE {FALSE}) :
        LET out == layoutOutcome(Rendered, nodes, thrown)
        IN /\ thrown \/ Len(nodeUpdates(nodes, project)) # 0
           /\ Work + out.calls <= budget
           /\ CommitNodes([ok |-> out.count # 0, st |-> out.st], out.nodes)
           /\ edits' = edits + out.count
           /\ last' = LastCall(IF thrown THEN "autoLayoutThrown" ELSE "autoLayout",
                               out.count # 0, FALSE, 0, NoTable, NoConnection,
                               project, NullProject)
           /\ UNCHANGED uuid

AutoLayoutFrom(mayThrow) == AutoLayoutWithin(mayThrow, MaxWork)

\* s.toLowerCase()
ToLowerCase(s) == [n \in 1..Len(s) |-> IF s[n] = "C" THEN "c" ELSE s[n]]

\* `${n}` for a number below ten
Decimal(n) == <<(<<"0", "1", "2", "3", "4", "5", "6", "7", "8", "9">>)[n + 1]>>

\* one row of an imported file (ImportedColumnDef); "" and <<>> stand for an
\* absent, null or empty value
ColDef(table_name, column_name, data_type, referenced_table_name, referenced_column_name) ==
    [table_name |-> table_name, column_name |-> column_name, data_type |-> data_type,
     referenced_table_name |-> referenced_table_name,
     referenced_column_name |-> referenced_column_name]

\* tablesMap.get(name): is there one, and where
HasTableNamed(ts, name) == \E i \in 1..Len(ts) : ts[i].name = name
TableNamed(ts, name) == CHOOSE i \in 1..Len(ts) : ts[i].name = name

\* the first pass of processImportedJson from row c on: a table per table_name
\* in order of first appearance, a field per row; acc.made[c] is where the
\* field of row c went (fieldCreationMap), acc.next the last id handed out,
\* place[k] the position Math.random gives the k-th table
RECURSIVE firstPass(_, _, _, _)
firstPass(jsonData, place, c, acc) ==
    IF c > Len(jsonData) THEN acc
    ELSE LET colDef == jsonData[c]
         IN IF colDef.table_name = <<>>
            THEN firstPass(jsonData, place, c + 1,
                           [acc EXCEPT !.made = Append(@, [t |-> 0, f |-> 0])])
            ELSE LET withTable ==
                         IF HasTableNamed(acc.tables, colDef.table_name) THEN acc
                         ELSE [acc EXCEPT
                                 !.tables = Append(@, Table(acc.next + 1, colDef.table_name, <<>>,
                                                            place[Len(acc.tables) + 1])),
                                 !.next = @ + 1]
                     t == TableNamed(withTable.tables, colDef.table_name)
                     n == Len(withTable.tables[t].fields)
                     name == IF colDef.column_name = <<>>
                             THEN <<"f", "i", "e", "l", "d", "_">> \o Decimal(n + 1)
                             ELSE colDef.column_name
                     field == Field(withTable.next + 1, name,
                                    IF colDef.data_type = "" THEN "text" ELSE colDef.data_type,
                                    ToLowerCase(name) = <<"i", "d">>, NoFK)
                 IN firstPass(jsonData, place, c + 1,
                              [withTable EXCEPT !.tables[t].fields = Append(@, field),
                                                !.next = @ + 1,
                                                !.made = Append(@, [t |-> t, f |-> n + 1])])

\* the second pass's test without the search for the target field
resolvesTablesOnly(colDef, made, ts) ==
    /\ colDef.referenced_table_name # <<>>
    /\ colDef.referenced_column_name # <<>>
    /\ HasTableNamed(ts, colDef.table_name)
    /\ HasTableNamed(ts, colDef.referenced_table_name)
    /\ made.t # 0

\* the second pass's test: the row names a reference, its own table, the
\* referenced table and its own field are there, and the referenced table has
\* a field of the referenced name
resolves(colDef, made, ts) ==
    /\ colDef.referenced_table_name # <<>>
    /\ colDef.referenced_column_name # <<>>
    /\ HasTableNamed(ts, colDef.table_name)
    /\ HasTableNamed(ts, colDef.referenced_table_name)
    /\ made.t # 0
    /\ HasField(ts[TableNamed(ts, colDef.referenced_table_name)], colDef.referenced_column_name)

\* the second pass from row c on: a row whose reference resolves annotates its
\* own field and adds a connection
RECURSIVE secondPass(_, _, _)
secondPass(jsonData, c, acc) ==
    IF c > Len(jsonData) THEN acc
    ELSE LET colDef == jsonData[c]
             made == acc.made[c]
         IN IF ~resolves(colDef, made, acc.tables) THEN secondPass(jsonData, c + 1, acc)
            ELSE LET sourceTable == acc.tables[TableNamed(acc.tables, colDef.table_name)]
                     targetTable == acc.tables[TableNamed(acc.tables, colDef.referenced_table_name)]
                     sourceField == acc.tables[made.t].fields[made.f]
                     newConnection == Connection(acc.next + 1, sourceTable.id, sourceField.name,
                                                 targetTable.id, colDef.referenced_column_name)
                 IN secondPass(jsonData, c + 1,
                               [acc EXCEPT
                                  !.tables[made.t].fields[made.f].foreignKey =
                                      [tableId |-> targetTable.id,
                                       fieldName |-> colDef.referenced_column_name],
                                  !.connections = Append(@, newConnection),
                                  !.next = @ + 1])

\* processImportedJson(jsonData): newTables, newConnections and the last id used
processImportedJson(jsonData, place, base) ==
    secondPass(jsonData, 1,
               firstPass(jsonData, place, 1,
                         [tables |-> <<>>, connections |-> <<>>, next |-> base, made |-> <<>>]))

\* updateFullProject(prev => ({...prev, tables: newTables, connections: newConnections}))
updateFullProject(prevProject, newTables, newConnections) ==
    [prevProject EXCEPT !.tables = newTables, !.connections = newConnections]

\* where Math.random() * 400 may put a table
RandomPositions == {Position(0, 0), Position(300, 200)}

\* the files a user imports: one table; a reference that resolves; a reference
\* to a table that is missing; a table whose name is no identifier and a
\* column without a name; a reference ahead of the row it names; a reference
\* to a column that is missing; a table that references itself; two columns
\* of one name; a row without a table name; a reference from a column
\* without a name; two columns with "-left" in their names
ImportFiles ==
    << <<ColDef(NameUsers, <<"i", "d">>, "INT", <<>>, <<>>)>>,
       <<ColDef(NameUsers, <<"i", "d">>, "INT", <<>>, <<>>),
         ColDef(NameOrders, FieldUser, "INT", NameUsers, <<"i", "d">>)>>,
       <<ColDef(NameUsers, <<"i", "d">>, "INT", <<>>, <<>>),
         ColDef(NameOrders, FieldUser, "", <<"a">>, <<"i", "d">>)>>,
       <<ColDef(<<"1", " ">>, <<>>, "INT", <<>>, <<>>)>>,
       <<ColDef(NameOrders, FieldUser, "INT", NameUsers, <<"i", "d">>),
         ColDef(NameUsers, <<"i", "d">>, "INT", <<>>, <<>>)>>,
       <<ColDef(NameUsers, <<"i", "d">>, "INT", <<>>, <<>>),
         ColDef(NameOrders, FieldUser, "INT", NameUsers, FieldNew)>>,
       <<ColDef(NameOrders, <<"i", "d">>, "INT", <<>>, <<>>),
         ColDef(NameOrders, FieldUser, "INT", NameOrders, <<"i", "d">>)>>,
       <<ColDef(NameOrders, FieldUser, "INT", NameOrders, FieldUser),
         ColDef(NameOrders, FieldUser, "INT", <<>>, <<>>)>>,
       <<ColDef(<<>>, FieldUser, "INT", NameUsers, <<"i", "d">>),
         ColDef(NameUsers, <<"i", "d">>, "INT", <<>>, <<>>)>>,
       <<ColDef(NameUsers, <<"i", "d">>, "INT", <<>>, <<>>),
         ColDef(NameOrders, <<>>, "INT", NameUsers, <<"i", "d">>)>>,
       <<ColDef(NameOrders, LeftSuffix \o <<"z">>, "INT", <<>>, <<>>),
         ColDef(NameOrders, <<"z">> \o LeftSuffix, "INT", <<>>, <<>>)>> >>

\* the files imported on the canvas, all of them, and those whose handles
\* the edges are checked on
CanvasImports == {1, 2, 3, 4}
AllImports == 1..Len(ImportFiles)
HandleImports == {2, Len(ImportFiles)}

\* the sidebar's import of file k (handleFileChange, processImportedJson)
ImportFrom(ks) ==
    /\ phase = "Idle"
    /\ project.open
    /\ \E k \in ks : \E place \in [1..Len(ImportFiles[k]) -> RandomPositions] :
        LET made == processImportedJson(ImportFiles[k], place, uuid)
        IN /\ Work + (made.next - uuid) <= MaxWork
           /\ project' = updateFullProject(project, made.tables, made.connections)
           /\ uuid' = made.next
           /\ phase' = "Reconciling"
           /\ last' = LastCall("import", TRUE, FALSE, k, NoTable, NoConnection, project, NullProject)
    /\ UNCHANGED <<tables, connections, nodes, edges, edits, copiedTableData, warning, issued>>

\* the dashboard's processImportedJson(jsonData, projectId): one table per
\* table_name, in order of first appearance, with a name, columns and
\* relationships and no id, fields or position (0, <<>> and (0, 0) here)
RECURSIVE dashboardTables(_, _, _)
dashboardTables(jsonData, c, acc) ==
    IF c > Len(jsonData) THEN acc
    ELSE dashboardTables(jsonData, c + 1,
                         IF HasTableNamed(acc, jsonData[c].table_name) THEN acc
                         ELSE Append(acc, Table(0, jsonData[c].table_name, <<>>, Position(0, 0))))

\* the dashboard's import of file k (handleImportProject): createProject, then
\* updateFullProject(prev => ({...prev, tables}))
DashboardImport ==
    /\ phase = "Idle"
    /\ \E k \in AllImports :
        /\ project' = [open |-> TRUE,
                       tables |-> dashboardTables(ImportFiles[k], 1, <<>>),
                       connections |-> <<>>]
        /\ last' = LastCall("dashboardImport", TRUE, FALSE, k, NoTable, NoConnection,
                            project, NullProject)
    /\ phase' = "Reconciling"
    /\ UNCHANGED <<tables, connections, nodes, edges, uuid, edits, copiedTableData, warning, issued>>

\* the render after a snapshot change and its effects: the hooks copy the
\* snapshot's lists into their local state, DBCanvas replaces nodes and edges
\* and deletes every connection that no longer resolves (the effect of the
\* DBCanvas that validates and cleans up connections; the DBCanvas that maps
\* edges from the referenced table has the two replacing effects only)
Rebuild ==
    /\ phase = "Reconciling"
    /\ LET invalid == invalidConnections(project)
           swept == Sweep(Rendered, Rendered, invalid)
       IN /\ nodes' = reactFlowNodes(project)
          /\ edges' = reactFlowEdges(project)
          /\ tables' = project.tables
          /\ connections' = project.connections
          /\ project' = swept.project
          /\ phase' = IF invalid # <<>> THEN "Reconciling" ELSE "Idle"
          /\ warning' = warningCount(invalid)
          /\ issued' = sweepCalls(invalid)
    /\ UNCHANGED <<uuid, edits, last, copiedTableData>>

AddTable == AddTableFrom(EditorDefs)
AutoLayout == AutoLayoutFrom(FALSE)
Connect == ConnectFrom(FALSE)
Import == ImportFrom(CanvasImports)
UpdateTable == UpdateTableFrom(FALSE)
UpdateConnection == UpdateConnectionFrom(FALSE)

\* the gestures and calls of a session, with the inputs the editors let through
Next ==
    \/ OpenProject
    \/ AddTable
    \/ UpdateTable
    \/ DeleteTable
    \/ DuplicateTable
    \/ Connect
    \/ UpdateConnection
    \/ DeleteConnection
    \/ UpdateTableNoProject
    \/ AddConnectionNoProject
    \/ UpdateConnectionNoProject
    \/ Rebuild

Spec == Init /\ [][Next]_vars

AddTableApi == AddTableFrom(TableDefs)
UpdateTableApi == UpdateTableFrom(TRUE)
UpdateConnectionApi == UpdateConnectionFrom(TRUE)

\* the mutation service called directly, with any input
NextApi ==
    \/ OpenProject
    \/ AddTableApi
    \/ UpdateTableApi
    \/ AddConnectionApi
    \/ UpdateConnectionApi
    \/ Rebuild

SpecApi == Init /\ [][NextApi]_vars

\* the gestures on the canvas and the sidebar
NextCanvas ==
    \/ OpenProject
    \/ AddTable
    \/ DeleteTable
    \/ DuplicateTable
    \/ Connect
    \/ SelectNode
    \/ Copy
    \/ Paste
    \/ DragStop
    \/ AutoLayout
    \/ Import
    \/ Rebuild

SpecCanvas == Init /\ [][NextCanvas]_vars

\* the canvas gestures, with a layout library that may throw
AutoLayoutOrThrow == AutoLayoutFrom(TRUE)

NextGestures ==
    \/ OpenProject
    \/ AddTable
    \/ DuplicateTable
    \/ Connect
    \/ SelectNode
    \/ EdgesChange
    \/ DragStop
    \/ AutoLayoutOrThrow
    \/ Rebuild

SpecGestures == Init /\ [][NextGestures]_vars

\* the connect gestures, stale ones among them, on a canvas whose tables and
\* edges come and go
ConnectAny == ConnectFrom(TRUE)

NextConnect ==
    \/ OpenProject
    \/ AddTable
    \/ DeleteTable
    \/ DuplicateTable
    \/ ConnectAny
    \/ EdgesChange
    \/ Rebuild

SpecConnect == Init /\ [][NextConnect]_vars

\* the layout of schemas that imports and connect gestures made, with room
\* for the persist loop of two tables after them
LayoutWork == MaxWork + 2
AutoLayoutLate == AutoLayoutWithin(FALSE, LayoutWork)

NextLayout ==
    \/ OpenProject
    \/ AddTable
    \/ Import
    \/ Connect
    \/ DeleteTable
    \/ AutoLayoutLate
    \/ Rebuild

SpecLayout == Init /\ [][NextLayout]_vars

\* the gestures that issue calls, on a canvas where renames leave connections
\* for the sweep
NextCalls ==
    \/ OpenProject
    \/ AddTable
    \/ UpdateTable
    \/ Connect
    \/ EdgesChange
    \/ DragStop
    \/ Rebuild

SpecCalls == Init /\ [][NextCalls]_vars

\* connect gestures on imported and added tables, and the edges the rebuild
\* draws for them
ImportHandles == ImportFrom(HandleImports)

NextEdges ==
    \/ OpenProject
    \/ AddTable
    \/ ImportHandles
    \/ Connect
    \/ DeleteConnection
    \/ Rebuild

SpecEdges == Init /\ [][NextEdges]_vars

\* the same gestures, with the render React schedules after every change of
\* the snapshot: a rebuild that is due is run
SpecCallsFair == SpecCalls /\ WF_vars(Rebuild)
SpecGesturesFair == SpecGestures /\ WF_vars(Rebuild)

\* the imports, of every file
ImportAny == ImportFrom(AllImports)

NextImport ==
    \/ OpenProject
    \/ ImportAny
    \/ DashboardImport
    \/ SelectNode
    \/ Rebuild

SpecImport == Init /\ [][NextImport]_vars

----------------------------------------------------------------------------
(* Properties.                                                             *)

Idle == phase = "Idle"

\* every field of table id named name carries exactly the annotation fk
AnnotatedWith(ts, id, name, fk) ==
    /\ HasTable(ts, id)
    /\ HasField(FindTable(ts, id), name)
    /\ \A k \in 1..Len(FindTable(ts, id).fields) :
          FindTable(ts, id).fields[k].name = name
              => FindTable(ts, id).fields[k].foreignKey = fk

\* some field of table id named name carries the annotation fk
SomeAnnotatedWith(ts, id, name, fk) ==
    /\ HasTable(ts, id)
    /\ \E k \in 1..Len(FindTable(ts, id).fields) :
          /\ FindTable(ts, id).fields[k].name = name
          /\ FindTable(ts, id).fields[k].foreignKey = fk

TargetOf(c) == [tableId |-> c.targetId, fieldName |-> c.targetField]

\* C1: once a connect gesture's addConnection has succeeded for S.f -> T.g, every
\* snapshot that holds the new Connection also has foreignKey = {T, g} on field f
\* of table S, whatever made table S.
C1_ConnectAtomicity ==
    (last.op = "connect" /\ last.ok /\ HasConnection(project.connections, last.id))
        => AnnotatedWith(project.tables, last.conn.sourceId, last.conn.sourceField,
                         TargetOf(last.conn))

\* C2: with the canvas Idle, every Connection c has its annotation: table
\* c.sourceId has a field named c.sourceField whose foreignKey is
\* {c.targetId, c.targetField}.
C2_ConnectionHasAnnotation ==
    Idle => \A i \in 1..Len(project.connections) :
                SomeAnnotatedWith(project.tables, project.connections[i].sourceId,
                                  project.connections[i].sourceField,
                                  TargetOf(project.connections[i]))

\* C3: with the canvas Idle, every annotation has its Connection: a field named f
\* of table S with foreignKey {T, g} comes with a Connection S.f -> T.g.
C3_AnnotationHasConnection ==
    Idle => \A i \in 1..Len(project.tables) : \A k \in 1..Len(project.tables[i].fields) :
                LET field == project.tables[i].fields[k]
                IN field.foreignKey # NoFK =>
                     \E j \in 1..Len(project.connections) :
                        /\ project.connections[j].sourceId = project.tables[i].id
                        /\ project.connections[j].sourceField = field.name
                        /\ TargetOf(project.connections[j]) = field.foreignKey

\* the deleteConnection just made deletes what the connect gesture before it
\* created, and that gesture found the source field without an annotation
C4_RoundTripMade ==
    /\ last.op = "deleteConnection"
    /\ last.ok
    /\ last.prior.open
    /\ AnnotatedWith(last.prior.tables, last.conn.sourceId, last.conn.sourceField, NoFK)

C5_DeleteTableCascade ==
    (last.op = "deleteTable" /\ last.ok)
        => \A j \in 1..Len(project.connections) :
              /\ project.connections[j].sourceId # last.id
              /\ project.connections[j].targetId # last.id

\* C6: after deleteTable(id), once the canvas is Idle again, no field of a
\* surviving table carries an annotation whose tableId is id.
C6_NoAnnotationToDeleted ==
    (last.op = "deleteTable" /\ last.ok /\ Idle)
        => \A i \in 1..Len(project.tables) : \A k \in 1..Len(project.tables[i].fields) :
              project.tables[i].fields[k].foreignKey.tableId # last.id

Primaries(table) == Cardinality({k \in 1..Len(table.fields) : table.fields[k].primary})

\* C8: every Table of the Project has at most one Field with primary = true,
\* whatever definitions addTable and updateTable were given.
C8_AtMostOnePrimary ==
    \A i \in 1..Len(project.tables) : Primaries(project.tables[i]) <= 1

\* a name that is empty or is not identifier syntax: a letter or underscore,
\* then letters, digits and underscores
C9_BadName(s) ==
    \/ s = <<>>
    \/ s[1] \notin LowerCase \cup UpperCase \cup {"_"}
    \/ \E i \in 2..Len(s) : s[i] \notin LowerCase \cup UpperCase \cup Digits \cup {"_"}

\* the tables C9 is about: a bad name, no field, a field with a bad name or an
\* empty type
C9_BadTable(table) ==
    \/ C9_BadName(table.name)
    \/ table.fields = <<>>
    \/ \E k \in 1..Len(table.fields) :
          C9_BadName(table.fields[k].name) \/ table.fields[k].type = ""

\* C9: addTable or updateTable called with such a table reports failure and
\* leaves the Project snapshot (tables, connections) as it was before the call.
\* (A step that changes last is a call; last'.before is the snapshot it read.)
C9_RejectedTableUnchanged ==
    [][(last' # last /\ last'.op \in {"addTable", "updateTable"}
            /\ C9_BadTable(last'.table))
        => (~last'.ok /\ last'.before = project /\ project' = project)]_vars

\* C9's case: such a call was made on a project that holds tables and connections
C9_Witness ==
    /\ last.op = "updateTable"
    /\ C9_BadTable(last.table)
    /\ HasTable(project.tables, last.table.id)
    /\ project.connections # <<>>

\* the connections C10 is about: the source table, the target table, the source
\* field or the target field is not in the tables ts
C10_Dangling(conn, ts) ==
    \/ \A i \in 1..Len(ts) : ts[i].id # conn.sourceId
    \/ \A i \in 1..Len(ts) : ts[i].id # conn.targetId
    \/ \E i \in 1..Len(ts) :
          /\ ts[i].id = conn.sourceId
          /\ \A k \in 1..Len(ts[i].fields) : ts[i].fields[k].name # conn.sourceField
    \/ \E i \in 1..Len(ts) :
          /\ ts[i].id = conn.targetId
          /\ \A k \in 1..Len(ts[i].fields) : ts[i].fields[k].name # conn.targetField

\* C10: addConnection or updateConnection called with such a connection reports
\* failure and leaves Project.connections and Project.tables as they were.
C10_RejectedConnectionUnchanged ==
    [][(last' # last /\ last'.op \in {"addConnection", "updateConnection"}
            /\ C10_Dangling(last'.conn, project.tables))
        => (~last'.ok /\ last'.before = project /\ project' = project)]_vars

\* C10's case: updateConnection was called for a Connection of the project with
\* a target field its target table does not have
C10_Witness ==
    /\ last.op = "updateConnection"
    /\ HasConnection(project.connections, last.conn.id)
    /\ HasTable(project.tables, last.conn.sourceId)
    /\ HasTable(project.tables, last.conn.targetId)
    /\ HasField(FindTable(project.tables, last.conn.sourceId), last.conn.sourceField)
    /\ ~HasField(FindTable(project.tables, last.conn.targetId), last.conn.targetField)

\* the calls of the mutation service
C11_Calls ==
    {"addTable", "updateTable", "deleteTable", "duplicateTable",
     "addConnection", "updateConnection", "deleteConnection"}

\* C11: with no Project open, each call of the mutation service reports failure
\* and issues no update: the project is still null afterwards.
C11_NoProjectNoUpdate ==
    [][(~project.open /\ last' # last /\ last'.op \in C11_Calls)
        => (~last'.ok /\ ~project'.open /\ project' = project)]_vars

\* C11's case: with no Project open, updateTable was called with a table that
\* passes validation
C11_Witness ==
    /\ ~project.open
    /\ last.op = "updateTable"
    /\ validateTable(last.table)

\* the ids of the fields of a table
FieldIds(table) == {table.fields[k].id : k \in 1..Len(table.fields)}

\* C12: the Table duplicateTable(id) produces has an id that differs from the
\* original's and from every other Table's id, and Field ids that are pairwise
\* distinct and none of them a Field id of the original.
C12_DuplicateFreshIds ==
    (last.op = "duplicateTable" /\ last.ok) =>
        LET copy == last.table
            original == FindTable(last.before.tables, last.id)
        IN /\ copy.id # original.id
           /\ \A i \in 1..Len(last.before.tables) : last.before.tables[i].id # copy.id
           /\ Cardinality(FieldIds(copy)) = Len(copy.fields)
           /\ FieldIds(copy) \cap FieldIds(original) = {}

\* C12's case: a table was duplicated in a project that holds other tables, and
\* the copy is in the project
C12_Witness ==
    /\ last.op = "duplicateTable"
    /\ last.ok
    /\ Len(last.before.tables) > 1
    /\ HasTable(project.tables, last.table.id)


C14_TableNamesAreIdentifiers ==
    \A i \in 1..Len(project.tables) :
        /\ Len(project.tables[i].name) > 0
        /\ IsIdentifier(project.tables[i].name)

\* C15: a paste gesture with held clipboard data adds exactly one table to the
\* project; the table's name is the held name followed by " (Copy)" and its
\* position is the selected node's position plus (50, 50), or (100, 100) when
\* no node is selected.
C15_PasteAddsOneTable ==
    [][(last' # last /\ last'.op = "paste") =>
          /\ Len(project'.tables) = Len(project.tables) + 1
          /\ SubSeq(project'.tables, 1, Len(project.tables)) = project.tables
          /\ project'.tables[Len(project'.tables)].name = copiedTableData.name \o CopySuffix
          /\ project'.tables[Len(project'.tables)].position = pastePosition(nodes)]_vars

\* a position no table has: what a table without a position carries
C16_NoPosition == Position(-1, -1)

\* C16: the table a paste gesture passes to addTable carries neither the id nor
\* the position of the copied table, and the table that results has an id no
\* table of the project has and field ids disjoint from the copied table's.
C16_PasteStripsIdentity ==
    [][(last' # last /\ last'.op = "paste") =>
          /\ last'.table.id = 0
          /\ last'.table.position = C16_NoPosition
          /\ last'.ok =>
                LET result == project'.tables[Len(project'.tables)]
                IN /\ ~HasTable(project.tables, result.id)
                   /\ FieldIds(result) \cap FieldIds(copiedTableData) = {}]_vars

C18_ProjectionInIdle ==
    Idle =>
        /\ {nodes[n].id : n \in 1..Len(nodes)} = {project.tables[i].id : i \in 1..Len(project.tables)}
        /\ \A n \in 1..Len(nodes) : \A i \in 1..Len(project.tables) :
              nodes[n].id = project.tables[i].id => nodes[n].position = project.tables[i].position
        /\ {edges[e].id : e \in 1..Len(edges)} = {project.connections[c].id : c \in 1..Len(project.connections)}

\* C19: a drag-stop on the node of a table of the project gives a snapshot in
\* which that table is at the released position and is otherwise as it was,
\* and every other table and every connection is as it was, however the table
\* was created.
C19_DragStopMovesTable ==
    [][(last' # last /\ last'.op = "dragStop") =>
          /\ Len(project'.tables) = Len(project.tables)
          /\ \A i \in 1..Len(project.tables) :
                project'.tables[i] =
                    IF project.tables[i].id = last'.id
                    THEN [project.tables[i] EXCEPT !.position = last'.table.position]
                    ELSE project.tables[i]
          /\ project'.connections = project.connections]_vars

\* the calls of the persist loop applied one after another from call k on, each
\* to the state the call before it left (st), with the arguments the handler
\* computed from the render r
RECURSIVE C20_OneAfterAnother(_, _, _, _)
C20_OneAfterAnother(r, st, updates, k) ==
    IF k > Len(updates) THEN st
    ELSE LET tableToUpdate == FindTable(r.project.tables, updates[k].id)
         IN C20_OneAfterAnother(r, updateTable(st, st, [tableToUpdate EXCEPT
                                                           !.position = updates[k].position]).st,
                                updates, k + 1)

\* C20: the calls one event handler issues before the next render (here the
\* updateTable calls of auto-layout's persist loop) leave the snapshot that
\* applying them one after another leaves, each to the result of the one
\* before; no earlier call's effect is overwritten by a later call.
C20_NoLostUpdates ==
    [][(last' # last /\ last'.op = "autoLayout") =>
          project' = C20_OneAfterAnother(Rendered, Rendered, nodeUpdates(nodes, project), 1).project]_vars

\* C21: once the canvas is idle again after an auto-layout that reported
\* success on a project with two or more tables, every table of the snapshot
\* is at the position the layout computed for it (the centre dagre gave it
\* less half the node's width and height).
C21_LayoutPersisted ==
    (Idle /\ last.op = "autoLayout" /\ last.ok /\ Len(last.before.tables) >= 2) =>
        LET computed == nodeUpdates(reactFlowNodes(last.before), last.before)
        IN \A i \in 1..Len(project.tables) : \A k \in 1..Len(computed) :
              computed[k].id = project.tables[i].id =>
                  project.tables[i].position = computed[k].position

\* the connection c of the snapshot call.before lost its source field's name to
\* the updateTable call: the field it names was there before the call and the
\* table the call stored has no field of that name
C24_Drifted(call, c) ==
    /\ call.op = "updateTable"
    /\ call.ok
    /\ call.table.id = c.sourceId
    /\ HasConnection(call.before.connections, c.id)
    /\ ~IsInvalidConnection(c, call.before.tables)
    /\ ~HasField(call.table, c.sourceField)

C22_ThrownLayoutChangesNothing ==
    [][(last' # last /\ last'.op = "autoLayoutThrown") =>
          /\ nodes' = nodes
          /\ project' = project
          /\ tables' = tables
          /\ edits' = edits
          /\ phase' = phase
          /\ ~last'.ok]_vars

\* the layout threw on a project with two tables that it would have moved
C22_Witness ==
    /\ last.op = "autoLayoutThrown"
    /\ Len(last.before.tables) >= 2
    /\ \E k \in 1..Len(nodes) :
          nodeUpdates(nodes, last.before)[k].position # nodes[k].position

\* the foreignKey annotations of a snapshot: <<table id, field id, annotation>>
C25_Annotations(p) ==
    UNION {{<<p.tables[i].id, p.tables[i].fields[k].id, p.tables[i].fields[k].foreignKey>> :
               k \in {j \in 1..Len(p.tables[i].fields) : p.tables[i].fields[j].foreignKey # NoFK}} :
           i \in 1..Len(p.tables)}

\* C25: whenever a call sets or introduces a foreignKey annotation
\* {tableId: T, fieldName: g} on a field, the snapshot it leaves has a table
\* with id T that has a field named g.
C25_AnnotationTargetExists ==
    [][(last' # last) =>
          \A a \in C25_Annotations(project') \ C25_Annotations(project) :
              /\ HasTable(project'.tables, a[3].tableId)
              /\ HasField(FindTable(project'.tables, a[3].tableId), a[3].fieldName)]_vars

\* the rows of a file whose reference resolves in the snapshot p: the row has
\* a table name and names a table of p and a field that table has
C26_Resolving(jsonData, p) ==
    {c \in 1..Len(jsonData) :
        /\ jsonData[c].table_name # <<>>
        /\ jsonData[c].referenced_table_name # <<>>
        /\ jsonData[c].referenced_column_name # <<>>
        /\ \E i \in 1..Len(p.tables) :
              /\ p.tables[i].name = jsonData[c].referenced_table_name
              /\ HasField(p.tables[i], jsonData[c].referenced_column_name)}

\* C26: the project a structured import leaves is consistent, whatever the
\* rows: every connection names tables and fields there are, the source field
\* of every connection carries the matching foreignKey annotation, every
\* annotated field has a matching connection, and only rows whose reference
\* resolves give a connection and an annotation.
C26_ImportConsistent ==
    [][(last' # last /\ last'.op \in {"import", "dashboardImport"}) =>
          LET p == project'
              jsonData == ImportFiles[last'.id]
          IN /\ \A n \in 1..Len(p.connections) :
                   /\ ~IsInvalidConnection(p.connections[n], p.tables)
                   /\ \E k \in 1..Len(FindTable(p.tables, p.connections[n].sourceId).fields) :
                         LET field == FindTable(p.tables, p.connections[n].sourceId).fields[k]
                         IN /\ field.name = p.connections[n].sourceField
                            /\ field.foreignKey = [tableId |-> p.connections[n].targetId,
                                                   fieldName |-> p.connections[n].targetField]
             /\ \A a \in C25_Annotations(p) :
                   \E n \in 1..Len(p.connections) :
                       /\ p.connections[n].sourceId = a[1]
                       /\ p.connections[n].targetId = a[3].tableId
                       /\ p.connections[n].targetField = a[3].fieldName
                       /\ \E k \in 1..Len(FindTable(p.tables, a[1]).fields) :
                             /\ FindTable(p.tables, a[1]).fields[k].id = a[2]
                             /\ FindTable(p.tables, a[1]).fields[k].name = p.connections[n].sourceField
             /\ Len(p.connections) = Cardinality(C26_Resolving(jsonData, p))
             /\ Cardinality(C25_Annotations(p)) = Cardinality(C26_Resolving(jsonData, p))]_vars

\* an import whose file had a reference that resolves and a second row, rebuilt
C26_Witness ==
    /\ last.op = "import"
    /\ Idle
    /\ Len(project.connections) = 1
    /\ Len(project.tables) = 2
    /\ C26_Resolving(ImportFiles[last.id], project) # {}

\* the ids of the edges, in order
C27_EdgeIds(es) == [n \in 1..Len(es) |-> es[n].id]

\* deleteConnection applied for each removal of the batch from change c on,
\* each to what the one before left
RECURSIVE C27_Deleted(_, _, _)
C27_Deleted(st, changes, c) ==
    IF c > Len(changes) THEN st
    ELSE IF changes[c].type # "remove" THEN C27_Deleted(st, changes, c + 1)
    ELSE C27_Deleted(deleteConnection(st, st, changes[c].id).st, changes, c + 1)

\* C27: the edge-change handler calls deleteConnection for each removed edge
\* and does not take the edge out of the visual graph itself; the list of edges
\* changes only through a rebuild; changes that are not removals are applied
\* to the visual graph and issue no mutation.
C27_EdgeRemovalByRebuild ==
    [][/\ (last' # last /\ last'.op = "edgesChange") =>
             LET changes == EdgeChanges(edges)[last'.id]
                 removals == {c \in 1..Len(changes) : changes[c].type = "remove"}
             IN /\ project' = C27_Deleted(Rendered, changes, 1).project
                /\ \A c \in removals : ~HasConnection(project'.connections, changes[c].id)
                /\ C27_EdgeIds(edges') = C27_EdgeIds(edges)
                /\ removals = {} =>
                      /\ project' = project
                      /\ phase' = phase
                      /\ edges' = applyEdgeChanges(changes, edges)
       /\ C27_EdgeIds(edges') # C27_EdgeIds(edges) => phase = "Reconciling"]_vars

\* an edge was removed by the gesture, the rebuild has run, and the edge and
\* its connection are gone
C27_Witness ==
    /\ last.op = "edgesChange"
    /\ last.ok
    /\ Idle
    /\ Len(last.before.connections) > Len(project.connections)
    /\ Len(edges) = Len(project.connections)

\* C28: a connect gesture leaves the edges of the visual graph as they were;
\* an edge that was not there appears only in a rebuild, for a connection of
\* the snapshot that is rebuilt, so a gesture whose addConnection added no
\* connection gives no edge.
C28_EdgesOnlyByRebuild ==
    [][/\ (last' # last /\ last'.op \in {"connect", "connectAborted"}) =>
             /\ edges' = edges
             /\ ~last'.ok => project' = project
       /\ \A n \in 1..Len(edges') :
             (\A m \in 1..Len(edges) : edges[m].id # edges'[n].id) =>
                 /\ phase = "Reconciling"
                 /\ HasConnection(project.connections, edges'[n].id)
                 /\ <<edges'[n]>> =
                       reactFlowEdges([connections |->
                           <<FindConnection(project.connections, edges'[n].id)>>])]_vars

\* a connect gesture was accepted, the rebuild has run, and the edge of the
\* new connection is there
C28_Witness ==
    /\ last.op = "connect"
    /\ last.ok
    /\ Idle
    /\ ~HasConnection(last.before.connections, last.id)
    /\ \E n \in 1..Len(edges) : edges[n].id = last.id

\* an end of the gesture is missing, a table of it is not in the project, or
\* a field of it is not on its table
C29_Missing(source, sourceHandle, target, targetHandle, targetField, p) ==
    \/ source = 0
    \/ target = 0
    \/ sourceHandle = <<>>
    \/ targetHandle = <<>>
    \/ \A n \in 1..Len(p.tables) : p.tables[n].id # source
    \/ \A n \in 1..Len(p.tables) : p.tables[n].id # target
    \/ \A n \in 1..Len(p.tables) :
          p.tables[n].id = source =>
              \A k \in 1..Len(p.tables[n].fields) : p.tables[n].fields[k].name # sourceHandle
    \/ \A n \in 1..Len(p.tables) :
          p.tables[n].id = target =>
              \A k \in 1..Len(p.tables[n].fields) : p.tables[n].fields[k].name # targetField

\* the handle of the gesture's target without its "-left"
C29_Stripped(handle) ==
    IF Len(handle) >= Len(LeftSuffix)
       /\ SubSeq(handle, Len(handle) - Len(LeftSuffix) + 1, Len(handle)) = LeftSuffix
    THEN SubSeq(handle, 1, Len(handle) - Len(LeftSuffix))
    ELSE handle

C30_SelectionOnly(before, after) ==
    /\ Len(after) = Len(before)
    /\ \A n \in 1..Len(before) : [after[n] EXCEPT !.selected = before[n].selected] = before[n]

\* C30: a change of the selection of nodes or of edges changes the visual
\* graph only: the snapshot (tables, connections, positions) and the hooks'
\* lists stay as they are, no rebuild is due and no mutation-service call is
\* issued.
C30_SelectionIsVisualOnly ==
    [][/\ (Idle /\ nodes' # nodes /\ C30_SelectionOnly(nodes, nodes')) =>
             /\ project' = project
             /\ tables' = tables
             /\ connections' = connections
             /\ phase' = phase
             /\ uuid' = uuid
             /\ edits' = edits
             /\ last' = last
             /\ edges' = edges
       /\ (/\ last' # last
           /\ last'.op = "edgesChange"
           /\ \A c \in 1..Len(EdgeChanges(edges)[last'.id]) :
                 EdgeChanges(edges)[last'.id][c].type = "select") =>
             /\ project' = project
             /\ tables' = tables
             /\ connections' = connections
             /\ phase' = phase
             /\ uuid' = uuid
             /\ edits' = edits
             /\ ~last'.ok
             /\ nodes' = nodes
             /\ C30_SelectionOnly(edges, edges')
             /\ \A c \in 1..Len(EdgeChanges(edges)[last'.id]) : \E n \in 1..Len(edges') :
                   edges'[n].id = EdgeChanges(edges)[last'.id][c].id /\ edges'[n].selected]_vars

\* an edge was selected and then a node, and the snapshot is the one from
\* before the two
C30_Witness ==
    /\ Idle
    /\ last.op = "edgesChange"
    /\ ~last.ok
    /\ project = last.before
    /\ \E n \in 1..Len(edges) : edges[n].selected
    /\ \E n \in 1..Len(nodes) : nodes[n].selected

\* the pairs a chain of at most 2^k of the edges links
RECURSIVE C31_Chains(_, _)
C31_Chains(es, k) ==
    IF k = 0 THEN es
    ELSE LET half == C31_Chains(es, k - 1)
         IN half \cup {<<p[1][1], p[2][2]>> : p \in {q \in half \X half : q[1][2] = q[2][1]}}

\* no chain of references between distinct tables leads back to its start
C31_Acyclic(conns) ==
    LET es == {<<conns[c].targetId, conns[c].sourceId>> :
                  c \in {d \in 1..Len(conns) : conns[d].targetId # conns[d].sourceId}}
    IN \A e \in C31_Chains(es, MaxWork) : e[1] # e[2]

\* the y of the node of the table
C31_Y(ns, id) == (ns[CHOOSE n \in 1..Len(ns) : ns[n].id = id]).position.y

\* C31: the layout's edges run from the referenced (target) table of a
\* connection to its referencing (source) table, one for each connection whose
\* two tables have nodes and none for any other; after an auto-layout of an
\* acyclic schema the node of the target table of every connection between
\* two distinct tables lies above (smaller y) the node of its source table.
C31_ReferencedAbove ==
    [][/\ \A c \in 1..Len(project.connections) :
             LET conn == project.connections[c]
                 HasNode(id) == \E n \in 1..Len(nodes) : nodes[n].id = id
             IN (HasNode(conn.sourceId) /\ HasNode(conn.targetId))
                    <=> <<conn.targetId, conn.sourceId>> \in dagreEdges(nodes, project.connections)
       /\ \A e \in dagreEdges(nodes, project.connections) :
             \E c \in 1..Len(project.connections) :
                 /\ project.connections[c].targetId = e[1]
                 /\ project.connections[c].sourceId = e[2]
       /\ (last' # last /\ last'.op = "autoLayout" /\ C31_Acyclic(project.connections)) =>
             \A c \in 1..Len(project.connections) :
                 LET conn == project.connections[c]
                 IN conn.sourceId # conn.targetId =>
                        C31_Y(nodes', conn.targetId) < C31_Y(nodes', conn.sourceId)]_vars

\* an acyclic schema with a connection between two tables was laid out
C31_Witness ==
    /\ last.op = "autoLayout"
    /\ C31_Acyclic(last.before.connections)
    /\ \E c \in 1..Len(last.before.connections) :
          last.before.connections[c].sourceId # last.before.connections[c].targetId
    /\ phase = "Reconciling"

\* the connections but those with the id, in order
RECURSIVE C32_Without(_, _)
C32_Without(conns, id) ==
    IF conns = <<>> THEN <<>>
    ELSE IF Head(conns).id = id THEN C32_Without(Tail(conns), id)
    ELSE <<Head(conns)>> \o C32_Without(Tail(conns), id)

\* C32: an accepted deleteConnection(id) of connection c takes the connection
\* with that id, and no other, out of the list; every table keeps its id, name,
\* position and its fields in their order, and a field that differs from
\* before differs in its foreignKey only and is a field of table c.sourceId
\* with the name c.sourceField.
C32_DeleteConnectionFrame ==
    [][(last' # last /\ last'.op = "deleteConnection" /\ last'.ok) =>
          LET c == last'.conn
          IN /\ project'.connections = C32_Without(project.connections, last'.id)
             /\ Len(project'.connections) = Len(project.connections) - 1
             /\ Len(project'.tables) = Len(project.tables)
             /\ \A n \in 1..Len(project.tables) :
                   LET before == project.tables[n]
                       after == project'.tables[n]
                   IN /\ after.id = before.id
                      /\ after.name = before.name
                      /\ after.position = before.position
                      /\ Len(after.fields) = Len(before.fields)
                      /\ \A k \in 1..Len(before.fields) :
                            /\ [after.fields[k] EXCEPT !.foreignKey = before.fields[k].foreignKey]
                                  = before.fields[k]
                            /\ after.fields[k] # before.fields[k] =>
                                  /\ before.id = c.sourceId
                                  /\ before.fields[k].name = c.sourceField]_vars

\* a connection was deleted, its source field lost its annotation, and
\* another field of the snapshot kept its own
C32_Witness ==
    /\ last.op = "deleteConnection"
    /\ last.ok
    /\ ~AnnotatedWith(last.before.tables, last.conn.sourceId, last.conn.sourceField, NoFK)
    /\ AnnotatedWith(project.tables, last.conn.sourceId, last.conn.sourceField, NoFK)
    /\ \E n \in 1..Len(project.tables) : \E k \in 1..Len(project.tables[n].fields) :
          project.tables[n].fields[k].foreignKey # NoFK

\* how many of the calls are this call
C33_Times(calls, call) == Cardinality({n \in 1..Len(calls) : calls[n] = call})

\* how many of the calls are calls of the function
C33_CallsOf(calls, op) == Cardinality({n \in 1..Len(calls) : calls[n].op = op})

C34_DuplicateFrame ==
    [][(last' # last /\ last'.op = "duplicateTable" /\ last'.ok) =>
          \E o \in 1..Len(project.tables) :
              LET original == project.tables[o]
                  copy == project'.tables[Len(project'.tables)]
              IN /\ original.id = last'.id
                 /\ Len(project'.tables) = Len(project.tables) + 1
                 /\ \A n \in 1..Len(project.tables) : project'.tables[n] = project.tables[n]
                 /\ project'.connections = project.connections
                 /\ copy.name = original.name \o <<" ", "(", "C", "o", "p", "y", ")">>
                 /\ copy.position.x = original.position.x + 20
                 /\ copy.position.y = original.position.y + 20
                 /\ Len(copy.fields) = Len(original.fields)
                 /\ \A k \in 1..Len(original.fields) :
                       [copy.fields[k] EXCEPT !.id = original.fields[k].id] = original.fields[k]]_vars

\* a table with an annotated field was duplicated while the snapshot held a
\* connection
C34_Witness ==
    /\ last.op = "duplicateTable"
    /\ last.ok
    /\ phase = "Reconciling"
    /\ project.connections # <<>>
    /\ \E k \in 1..Len(last.table.fields) : last.table.fields[k].foreignKey # NoFK

\* the source field of every connection of the snapshot carries an annotation
C35_AllAnnotated(p) ==
    \A c \in 1..Len(p.connections) :
        \E n \in 1..Len(p.tables) : \E k \in 1..Len(p.tables[n].fields) :
            /\ p.tables[n].id = p.connections[c].sourceId
            /\ p.tables[n].fields[k].name = p.connections[c].sourceField
            /\ p.tables[n].fields[k].foreignKey # NoFK

\* C35: if the source field of every connection carries a foreignKey
\* annotation before an accepted deleteConnection(id), the source field of
\* every connection that remains carries one after it, also when two
\* connections share their source table and source field name.
C35_RemainingStayAnnotated ==
    [][(last' # last /\ last'.op = "deleteConnection" /\ last'.ok /\ C35_AllAnnotated(project))
          => C35_AllAnnotated(project')]_vars

\* the edge the claim gives a connection
C36_EdgeOf(c) ==
    [id |-> c.id, source |-> c.targetId, target |-> c.sourceId,
     sourceHandle |-> c.targetField,
     targetHandle |-> c.sourceField \o <<"-", "l", "e", "f", "t">>]

\* the edge without what React Flow keeps about it
C36_Drawn(e) ==
    [id |-> e.id, source |-> e.source, target |-> e.target,
     sourceHandle |-> e.sourceHandle, targetHandle |-> e.targetHandle]

\* C36: a rebuild draws for every connection c the edge with id c.id, source
\* c.targetId, target c.sourceId, sourceHandle c.targetField and targetHandle
\* c.sourceField + "-left"; and the connection a connect gesture from node A
\* (handle f) to node B (the target handle of field g) makes is one whose edge
\* runs from node B (handle g) to node A (handle f + "-left").
C36_EdgeMapping ==
    [][/\ (phase = "Reconciling" /\ nodes' = reactFlowNodes(project)) =>
             /\ Len(edges') = Len(project.connections)
             /\ \A n \in 1..Len(edges') : C36_Drawn(edges'[n]) = C36_EdgeOf(project.connections[n])
       /\ (last' # last /\ last'.op = "connect" /\ last'.ok) =>
             \A a \in 1..Len(nodes), b \in 1..Len(nodes) :
                 \A f \in 1..Len(nodes[a].data.fields), g \in 1..Len(nodes[b].data.fields) :
                     LET A == nodes[a].id
                         B == nodes[b].id
                         fName == nodes[a].data.fields[f].name
                         gName == nodes[b].data.fields[g].name
                         out == onConnect(Rendered, Rendered, A, fName, B,
                                          gName \o <<"-", "l", "e", "f", "t">>, uuid + 1)
                     IN (out.ok /\ out.conn = last'.conn) =>
                            C36_EdgeOf(last'.conn) =
                                [id |-> last'.id, source |-> B, target |-> A,
                                 sourceHandle |-> gName,
                                 targetHandle |-> fName \o <<"-", "l", "e", "f", "t">>]]_vars

\* the canvas is idle, the visual graph is the projection of the snapshot
\* (whatever is selected), the hooks' lists are the snapshot's, and the sweep
\* has nothing to delete
C37_Quiescent ==
    /\ Idle
    /\ Len(nodes) = Len(project.tables)
    /\ \A n \in 1..Len(nodes) :
          [nodes[n] EXCEPT !.selected = FALSE] = reactFlowNodes(project)[n]
    /\ Len(edges) = Len(project.connections)
    /\ \A n \in 1..Len(edges) :
          [edges[n] EXCEPT !.selected = FALSE] = reactFlowEdges(project)[n]
    /\ tables = project.tables
    /\ connections = project.connections
    /\ invalidConnections(project) = <<>>

\* C37: after any gesture the canvas comes, after finitely many rebuilds, to
\* rest in a state where it is idle, the visual graph is the projection of the
\* snapshot, the hooks' lists are the snapshot's and no mutation is pending.
C37_Quiescence == [](~C37_Quiescent => <>C37_Quiescent)

\* a rebuild that is due is followed by an idle canvas: the sweep does not
\* re-trigger itself forever
C37_RebuildsEnd == (phase = "Reconciling") ~> Idle

\* C38: an accepted updateConnection(c) leaves the tables, every annotation
\* included, as they are and the connections as many and in the order they
\* were: the one with the id of c is c, every other is as it was; when no
\* connection has that id the list is unchanged.
C38_UpdateConnectionFrame ==
    [][(last' # last /\ last'.op = "updateConnection" /\ last'.ok) =>
          LET c == last'.conn
          IN /\ project'.tables = project.tables
             /\ Len(project'.connections) = Len(project.connections)
             /\ \A n \in 1..Len(project.connections) :
                   project'.connections[n] =
                       IF project.connections[n].id = c.id THEN c ELSE project.connections[n]
             /\ (\A n \in 1..Len(project.connections) : project.connections[n].id # c.id)
                    => project'.connections = project.connections]_vars

\* an updateConnection changed one of two connections
C38_Witness ==
    /\ last.op = "updateConnection"
    /\ last.ok
    /\ Len(last.before.connections) >= 2
    /\ project.connections # last.before.connections
    /\ phase = "Reconciling"

============================================================================
